---- MODULE Spec2Model ----
(***************************************************************************)
(* Model of the ai-core conversation store: the SQLAlchemy DatabaseService *)
(* (src/src/services/database_service.py), the raw-SQL DatabaseManager     *)
(* (src/src/database.py), the table constraints of src/src/models and the  *)
(* chat gateway and history endpoints of src/main.py.                       *)
(*                                                                         *)
(* Identifiers are naturals; 0 stands for None / NULL (and, like None, is  *)
(* falsy in the `if whatsapp_id:` tests of the code).  uuid4 row ids are   *)
(* drawn from per-table counters, so a row id is never reused.             *)
(***************************************************************************)
EXTENDS Naturals, Integers, Sequences, FiniteSets, TLC

\* ---- bounds of the model ------------------------------------------------
MaxWa == 1
MaxTg == 1
MaxApi == 1
MaxGroupWa == 1
MaxGroupTg == 1
MaxClock == 1
MaxLedger == 3
MaxDays == 1
MaxUsers == 2
MaxMembers == 1
MaxSenders == 2
MaxEntries == 12
MaxLimit == 5
MaxOffset == 5
MaxContextRows == 11

\* ---- values -------------------------------------------------------------
None == 0
NoTime == -1
Raised == -1
Procs == {1, 2}
Roles == {"ADMIN", "MEMBER"}
Senders == {"USER", "AI"}

WaIds == 0..MaxWa
TgIds == 0..MaxTg
ApiIds == 0..MaxApi
GroupWaIds == 0..MaxGroupWa
GroupTgIds == 0..MaxGroupTg

VARIABLES
    users,      \* table users: set of rows
    groups,     \* table groups: set of rows
    members,    \* table group_members: set of rows
    ledger,     \* table conversations: sequence of rows in insertion order
    nextId,     \* next unused row id of each table (uuid4 is fresh)
    clock,      \* the database's now()
    pc,         \* position of each chat_endpoint request
    req,        \* the ChatRequest of each request
    loc,        \* locals of each chat_endpoint request
    last        \* the most recent completed direct call and its result

vars == <<users, groups, members, ledger, nextId, clock, pc, req, loc, last>>
db == <<users, groups, members, ledger, nextId>>
gateway == <<pc, req, loc>>

\* ---- rows ---------------------------------------------------------------
UserRow(id, wa, tg, api) ==
    [id |-> id, whatsapp_id |-> wa, telegram_id |-> tg, api_id |-> api]

GroupRow(id, wa, tg) ==
    [id |-> id, whatsapp_id |-> wa, telegram_id |-> tg, is_active |-> TRUE]

MemberRow(id, u, g, role, t) ==
    [id |-> id, user_id |-> u, group_id |-> g, role |-> role,
     joined_at |-> t, left_at |-> NoTime]

ConversationRow(id, u, g, msg, sender, t) ==
    [id |-> id, user_id |-> u, group_id |-> g, message |-> msg,
     sender |-> sender, timestamp |-> t]

\* ---- table constraints (src/src/models) ---------------------------------
\* unique=True on users.whatsapp_id / telegram_id / api_id; NULLs never clash.
UserUniqueNone(row, U) == TRUE
UserUnique(row, U) ==
    \A u \in U : u.id # row.id =>
        /\ (row.whatsapp_id # None => u.whatsapp_id # row.whatsapp_id)
        /\ (row.telegram_id # None => u.telegram_id # row.telegram_id)
        /\ (row.api_id # None => u.api_id # row.api_id)

\* unique=True on groups.whatsapp_id / telegram_id.
GroupUniqueNone(row, G) == TRUE
GroupUnique(row, G) ==
    \A g \in G : g.id # row.id =>
        /\ (row.whatsapp_id # None => g.whatsapp_id # row.whatsapp_id)
        /\ (row.telegram_id # None => g.telegram_id # row.telegram_id)

\* UniqueConstraint("user_id", "group_id") on group_members.
MemberUniqueNone(row, M) == TRUE
MemberUnique(row, M) ==
    \A m \in M : m.id # row.id =>
        ~(m.user_id = row.user_id /\ m.group_id = row.group_id)

UserIds == {u.id : u \in users}
GroupIds == {g.id : g \in groups}

\* ---- DatabaseService reads ----------------------------------------------
Platforms == {"whatsapp", "telegram", "api"}

PlatformColumn(row, platform) ==
    CASE platform = "whatsapp" -> row.whatsapp_id
      [] platform = "telegram" -> row.telegram_id
      [] platform = "api" -> row.api_id

\* get_user_by_platform_id: the id of the row whose column equals platform_id.
get_user_by_platform_id(platform, platform_id) ==
    LET hit == {u \in users : PlatformColumn(u, platform) = platform_id}
    IN IF hit = {} THEN None ELSE (CHOOSE u \in hit : TRUE).id

\* The lookup part of DatabaseService.find_or_create_user: an if/elif chain,
\* so only the first supplied identifier is looked up.
find_user_first_supplied(wa, tg, api) ==
    IF wa # None THEN get_user_by_platform_id("whatsapp", wa)
    ELSE IF tg # None THEN get_user_by_platform_id("telegram", tg)
    ELSE IF api # None THEN get_user_by_platform_id("api", api)
    ELSE None

\* get_group_by_platform_id: no is_active filter in the service.
get_group_by_platform_id(platform, platform_id) ==
    LET hit == {g \in groups : PlatformColumn(g, platform) = platform_id}
    IN IF hit = {} THEN None ELSE (CHOOSE g \in hit : TRUE).id

find_group_first_supplied(wa, tg) ==
    IF wa # None THEN get_group_by_platform_id("whatsapp", wa)
    ELSE IF tg # None THEN get_group_by_platform_id("telegram", tg)
    ELSE None

\* DatabaseService.get_group_membership: the active row of the pair, if any.
ActiveRows(u, g) ==
    {m \in members : m.user_id = u /\ m.group_id = g /\ m.left_at = NoTime}

PairRows(u, g) == {m \in members : m.user_id = u /\ m.group_id = g}

svc_get_group_membership_none(u, g) == None
svc_get_group_membership(u, g) ==
    IF ActiveRows(u, g) = {} THEN None ELSE (CHOOSE m \in ActiveRows(u, g) : TRUE).id

\* DatabaseManager.is_user_in_group
is_user_in_group(u, g) == ActiveRows(u, g) # {}

\* ---- history reads ------------------------------------------------------
\* ORDER BY timestamp DESC LIMIT n over the rows (ledger positions) in S: every
\* order the database may give to rows of equal timestamp is a possible result.
RECURSIVE OrderByTimestampDescLimit(_, _)
OrderByTimestampDescLimit(S, n) ==
    IF n <= 0 \/ S = {}
    THEN {<<>>}
    ELSE LET newest == {x \in S :
                            \A y \in S : ledger[y].timestamp <= ledger[x].timestamp}
         IN UNION {{<<x>> \o rest :
                        rest \in OrderByTimestampDescLimit(S \ {x}, n - 1)} :
                    x \in newest}

\* list(reversed(conversations)), as rows
NotReversedRows(s) == [i \in 1..Len(s) |-> ledger[s[i]]]
ReversedRows(s) == [i \in 1..Len(s) |-> ledger[s[Len(s) + 1 - i]]]

\* WHERE user_id = :u AND group_id = :g   (== None compiles to IS NULL)
ScopeAnyGroup(u, g) == {i \in DOMAIN ledger : ledger[i].user_id = u}
ScopeAnyUser(u, g) ==
    {i \in DOMAIN ledger :
        ledger[i].group_id = g /\ (g = None => ledger[i].user_id = u)}
Scope(u, g) ==
    {i \in DOMAIN ledger : ledger[i].user_id = u /\ ledger[i].group_id = g}

\* WHERE group_id = :g
GroupScopeAll(g) == DOMAIN ledger
GroupScopeActiveMembers(g) ==
    {i \in DOMAIN ledger :
        ledger[i].group_id = g /\ ActiveRows(ledger[i].user_id, g) # {}}
GroupScope(g) == {i \in DOMAIN ledger : ledger[i].group_id = g}

\* DatabaseService.get_conversation_history: the possible results
get_conversation_history(u, g, limit) ==
    {ReversedRows(s) : s \in OrderByTimestampDescLimit(Scope(u, g), limit)}

\* DatabaseService.get_group_conversation_history: the possible results
get_group_conversation_history(g, limit) ==
    {ReversedRows(s) : s \in OrderByTimestampDescLimit(GroupScope(g), limit)}

\* DatabaseManager.get_conversation_history: private rows only, newest first
mgr_get_conversation_history(u, limit) ==
    {[i \in 1..Len(s) |-> ledger[s[i]]] :
        s \in OrderByTimestampDescLimit(Scope(u, None), limit)}

\* DatabaseManager.get_group_conversation_history: conversations JOIN users
\* WHERE c.group_id = ? ORDER BY c.timestamp DESC LIMIT ? OFFSET ?, newest first
mgr_get_group_conversation_history(g, limit, offset) ==
    LET joined == {i \in GroupScope(g) : \E u \in users : u.id = ledger[i].user_id}
    IN {[i \in 1..(Len(s) - offset) |-> ledger[s[offset + i]]] :
            s \in OrderByTimestampDescLimit(joined, limit + offset)}

\* ---- context assembly ---------------------------------------------------
ContextLimit == 10

SenderLabel(sender) == IF sender = "USER" THEN "User" ELSE "AI"

\* f"{sender_label}: {conv.message}"
ContextLine(row) == <<SenderLabel(row.sender), ": ", row.message>>

\* The text built from one history result: its first element is the heading
\* (or the canned opening), the others are the rendered lines.
RenderContext(conversations, g) ==
    IF conversations = <<>>
    THEN <<IF g # None
           THEN <<"This is the beginning of your group chat conversation.">>
           ELSE <<"This is the beginning of your private chat conversation.">> >>
    ELSE <<IF g # None THEN <<"Recent group conversation:">>
                       ELSE <<"Recent private conversation:">> >>
         \o [i \in 1..Len(conversations) |-> ContextLine(conversations[i])]

\* DatabaseService.get_conversation_context_for_ai: the possible texts
get_conversation_context_for_ai(u, g, limit) ==
    {RenderContext(c, g) : c \in get_conversation_history(u, g, limit)}

\* DatabaseManager.get_conversation_context_for_ai: the possible row lists.
\* A private context reads the user's private rows; a group context reads the
\* rows of every author in the group, and is empty for a non-member.
mgr_get_conversation_context_for_ai(u, g, limit) ==
    IF g = None
    THEN {ReversedRows(s) : s \in OrderByTimestampDescLimit(Scope(u, None), limit)}
    ELSE IF ~is_user_in_group(u, g)
    THEN {<<>>}
    ELSE {ReversedRows(s) : s \in OrderByTimestampDescLimit(GroupScope(g), limit)}

\* ---- chat_endpoint (src/main.py) ----------------------------------------
Messages == {"hi"}
Replies == {"hello"}

ChatRequest(msg, wa, tg, api, gwa, gtg, gname) ==
    [message |-> msg, whatsapp_id |-> wa, telegram_id |-> tg, api_id |-> api,
     group_whatsapp_id |-> gwa, group_telegram_id |-> gtg, group_name |-> gname]

NoRequest == ChatRequest("", None, None, None, None, None, None)

NoLocals ==
    [user |-> None, group_id |-> None, conversation_type |-> "private",
     user_entry |-> None, ai_context |-> <<>>, ai_response |-> "",
     ai_entry |-> None, status |-> 0, failed_at |-> ""]

\* process_query is a synchronous call made on the event loop: while one
\* request is inside it no other coroutine of the process is scheduled.
LoopFree == \A q \in Procs : pc[q] # "generating"

Goto(p, label) == pc' = [pc EXCEPT ![p] = label]

\* An exception leaves chat_endpoint: HTTP status and the step that raised.
Fail(p, status, at) ==
    /\ pc' = [pc EXCEPT ![p] = "done"]
    /\ loc' = [loc EXCEPT ![p].status = status, ![p].failed_at = at]

\* Lines 250-258: the scope of the request, decided from the request alone.
HasGroupIdsOrName(r) ==
    r.group_whatsapp_id # None \/ r.group_telegram_id # None \/ r.group_name # None
HasGroupIds(r) == r.group_whatsapp_id # None \/ r.group_telegram_id # None

ConversationTypePrivate(r) == "private"
ConversationType(r) == IF HasGroupIds(r) THEN "group" ELSE "private"

UserResolvedFromHistory(p, u) ==
    LET grp == HasGroupIds(req[p])
                /\ ~\E i \in DOMAIN ledger :
                        ledger[i].user_id = u /\ ledger[i].group_id = None
    IN /\ loc' = [loc EXCEPT ![p].user = u,
                             ![p].conversation_type = ConversationType(req[p])]
       /\ Goto(p, IF grp THEN "find_group" ELSE "store_user")

UserResolved(p, u) ==
    /\ loc' = [loc EXCEPT ![p].user = u,
                          ![p].conversation_type = ConversationType(req[p])]
    /\ Goto(p, IF HasGroupIds(req[p]) THEN "find_group" ELSE "store_user")

\* Line 236: not any([request.whatsapp_id, request.telegram_id, request.api_id])
NoPlatformIdNever(r) == FALSE
NoPlatformId(r) == r.whatsapp_id = None /\ r.telegram_id = None /\ r.api_id = None

\* Lines 235-241: validation, before any storage operation.
Receive(p, r) ==
    /\ pc[p] = "idle"
    /\ LoopFree
    /\ req' = [req EXCEPT ![p] = r]
    /\ IF NoPlatformId(r)
       THEN /\ pc' = [pc EXCEPT ![p] = "done"]
            /\ loc' = [loc EXCEPT ![p] = [NoLocals EXCEPT !.status = 400,
                                                         !.failed_at = "validate"]]
       ELSE /\ pc' = [pc EXCEPT ![p] = "find_user"]
            /\ loc' = [loc EXCEPT ![p] = NoLocals]
    /\ UNCHANGED <<db, clock, last>>

\* find_or_create_user, the lookup
FindUser(p) ==
    /\ pc[p] = "find_user"
    /\ LoopFree
    /\ LET u == find_user_first_supplied(req[p].whatsapp_id, req[p].telegram_id,
                                         req[p].api_id)
       IN IF u # None
          THEN UserResolved(p, u)
          ELSE Goto(p, "create_user") /\ UNCHANGED loc
    /\ UNCHANGED <<db, clock, req, last>>

\* find_or_create_user, DatabaseService.create_user: INSERT and commit
CreateUser(p) ==
    /\ pc[p] = "create_user"
    /\ LoopFree
    /\ LET row == UserRow(nextId.user, req[p].whatsapp_id, req[p].telegram_id,
                          req[p].api_id)
       IN IF UserUnique(row, users)
          THEN /\ users' = users \cup {row}
               /\ nextId' = [nextId EXCEPT !.user = @ + 1]
               /\ UserResolved(p, row.id)
          ELSE /\ Fail(p, 500, "create_user")
               /\ UNCHANGED <<users, nextId>>
    /\ UNCHANGED <<groups, members, ledger, clock, req, last>>

\* find_or_create_group, the lookup
FindGroup(p) ==
    /\ pc[p] = "find_group"
    /\ LoopFree
    /\ LET g == find_group_first_supplied(req[p].group_whatsapp_id,
                                          req[p].group_telegram_id)
       IN IF g # None
          THEN /\ loc' = [loc EXCEPT ![p].group_id = g]
               /\ Goto(p, "get_membership")
          ELSE Goto(p, "create_group") /\ UNCHANGED loc
    /\ UNCHANGED <<db, clock, req, last>>

\* find_or_create_group, DatabaseService.create_group: INSERT and commit
CreateGroup(p) ==
    /\ pc[p] = "create_group"
    /\ LoopFree
    /\ LET row == GroupRow(nextId.group, req[p].group_whatsapp_id,
                           req[p].group_telegram_id)
       IN IF GroupUnique(row, groups)
          THEN /\ groups' = groups \cup {row}
               /\ nextId' = [nextId EXCEPT !.group = @ + 1]
               /\ loc' = [loc EXCEPT ![p].group_id = row.id]
               /\ Goto(p, "get_membership")
          ELSE /\ Fail(p, 500, "create_group")
               /\ UNCHANGED <<groups, nextId>>
    /\ UNCHANGED <<users, members, ledger, clock, req, last>>

\* Line 266: existing_membership = get_group_membership(user.id, group.id)
GetMembership(p) ==
    /\ pc[p] = "get_membership"
    /\ LoopFree
    /\ Goto(p, IF svc_get_group_membership(loc[p].user, loc[p].group_id) # None
               THEN "store_user" ELSE "add_member")
    /\ UNCHANGED <<db, clock, req, loc, last>>

\* Line 268: DatabaseService.add_user_to_group: INSERT and commit
AddMember(p) ==
    /\ pc[p] = "add_member"
    /\ LoopFree
    /\ LET row == MemberRow(nextId.member, loc[p].user, loc[p].group_id,
                            "MEMBER", clock)
       IN IF MemberUnique(row, members)
          THEN /\ members' = members \cup {row}
               /\ nextId' = [nextId EXCEPT !.member = @ + 1]
               /\ Goto(p, "store_user")
               /\ UNCHANGED loc
          ELSE /\ Fail(p, 500, "add_user_to_group")
               /\ UNCHANGED <<members, nextId>>
    /\ UNCHANGED <<users, groups, ledger, clock, req, last>>

InsertNothing(u, g, msg, sender) == UNCHANGED <<ledger, nextId>>

InsertConversationPrivate(u, g, msg, sender) ==
    /\ nextId.conversation <= MaxLedger
    /\ ledger' = Append(ledger,
                        ConversationRow(nextId.conversation, u, None, msg, sender, clock))
    /\ nextId' = [nextId EXCEPT !.conversation = @ + 1]

\* DatabaseService.add_conversation: an unconditional INSERT
InsertConversation(u, g, msg, sender) ==
    /\ nextId.conversation <= MaxLedger
    /\ ledger' = Append(ledger,
                        ConversationRow(nextId.conversation, u, g, msg, sender, clock))
    /\ nextId' = [nextId EXCEPT !.conversation = @ + 1]

\* Lines 275-283: the inbound message
StoreUser(p) ==
    /\ pc[p] = "store_user"
    /\ LoopFree
    /\ InsertConversation(loc[p].user, loc[p].group_id, req[p].message, "USER")
    /\ loc' = [loc EXCEPT ![p].user_entry = nextId.conversation]
    /\ Goto(p, "build_context")
    /\ UNCHANGED <<users, groups, members, clock, req, last>>

\* Lines 285-290
BuildContext(p) ==
    /\ pc[p] = "build_context"
    /\ LoopFree
    /\ \E text \in get_conversation_context_for_ai(loc[p].user, loc[p].group_id,
                                                   ContextLimit) :
            loc' = [loc EXCEPT ![p].ai_context = text]
    /\ Goto(p, "generate")
    /\ UNCHANGED <<db, clock, req, last>>

\* AIService.process_query rejects an empty or blank query before the agent runs
Blank(msg) == msg = "" \/ msg = " "

\* Lines 292-302: the call of process_query begins
CallGenerator(p) ==
    /\ pc[p] = "generate"
    /\ LoopFree
    /\ Goto(p, "generating")
    /\ UNCHANGED <<db, clock, req, loc, last>>

\* process_query returns the agent's answer
GeneratorReturns(p) ==
    /\ pc[p] = "generating"
    /\ ~Blank(req[p].message)
    /\ \E r \in Replies : loc' = [loc EXCEPT ![p].ai_response = r]
    /\ Goto(p, "store_ai")
    /\ UNCHANGED <<db, clock, req, last>>

GeneratorRaisesUnsurfaced(p) ==
    /\ pc[p] = "generating"
    /\ Fail(p, 200, "process_query")
    /\ UNCHANGED <<db, clock, req, last>>

\* process_query raises: ValueError (400) for a blank query, Exception (500)
\* when the agent fails
GeneratorRaises(p) ==
    /\ pc[p] = "generating"
    /\ Fail(p, IF Blank(req[p].message) THEN 400 ELSE 500, "process_query")
    /\ UNCHANGED <<db, clock, req, last>>

StoreAiPrivate(p) ==
    /\ pc[p] = "store_ai"
    /\ LoopFree
    /\ InsertConversation(loc[p].user, None, loc[p].ai_response, "AI")
    /\ pc' = [pc EXCEPT ![p] = "done"]
    /\ loc' = [loc EXCEPT ![p].status = 200, ![p].ai_entry = nextId.conversation]
    /\ UNCHANGED <<users, groups, members, clock, req, last>>

\* Lines 304-327: the outbound message, then the response
StoreAi(p) ==
    /\ pc[p] = "store_ai"
    /\ LoopFree
    /\ InsertConversation(loc[p].user, loc[p].group_id, loc[p].ai_response, "AI")
    /\ pc' = [pc EXCEPT ![p] = "done"]
    /\ loc' = [loc EXCEPT ![p].status = 200, ![p].ai_entry = nextId.conversation]
    /\ UNCHANGED <<users, groups, members, clock, req, last>>

\* the database's now() advances
Tick ==
    /\ clock < MaxClock
    /\ clock' = clock + 1
    /\ UNCHANGED <<db, gateway, last>>

\* ---- direct calls of the two storage classes ----------------------------
\* A completed call: its operation, arguments and result.  Results are a row
\* id, None (also False), 1 for True, or Raised when the call raised.
Call(op, u, g, wa, tg, api, res) ==
    [op |-> op, u |-> u, g |-> g, wa |-> wa, tg |-> tg, api |-> api, res |-> res]

NoCall == Call("", None, None, None, None, None, None)

IdSets == {t \in WaIds \X TgIds \X ApiIds : t # <<None, None, None>>}
GroupIdSets == {t \in GroupWaIds \X GroupTgIds : t # <<None, None>>}

\* DatabaseService.create_user
SvcCreateUser(wa, tg, api) ==
    /\ LET row == UserRow(nextId.user, wa, tg, api)
       IN IF UserUnique(row, users)
          THEN /\ users' = users \cup {row}
               /\ nextId' = [nextId EXCEPT !.user = @ + 1]
               /\ last' = Call("svc.create_user", None, None, wa, tg, api, row.id)
          ELSE /\ last' = Call("svc.create_user", None, None, wa, tg, api, Raised)
               /\ UNCHANGED <<users, nextId>>
    /\ UNCHANGED <<groups, members, ledger, clock, gateway>>

\* DatabaseService.find_or_create_user, run without interference
SvcFindOrCreateUser(wa, tg, api) ==
    /\ LET u == find_user_first_supplied(wa, tg, api)
           row == UserRow(nextId.user, wa, tg, api)
       IN IF u # None
          THEN /\ last' = Call("svc.find_or_create_user", None, None, wa, tg, api, u)
               /\ UNCHANGED <<users, nextId>>
          ELSE IF UserUnique(row, users)
          THEN /\ users' = users \cup {row}
               /\ nextId' = [nextId EXCEPT !.user = @ + 1]
               /\ last' = Call("svc.find_or_create_user", None, None, wa, tg, api, row.id)
          ELSE /\ last' = Call("svc.find_or_create_user", None, None, wa, tg, api, Raised)
               /\ UNCHANGED <<users, nextId>>
    /\ UNCHANGED <<groups, members, ledger, clock, gateway>>

\* DatabaseManager.find_user_by_platform_id: WHERE c1 = ? OR c2 = ? OR c3 = ?,
\* fetchone(): any one of the matching rows
find_user_by_platform_id(wa, tg, api) ==
    {u \in users : \/ (wa # None /\ u.whatsapp_id = wa)
                   \/ (tg # None /\ u.telegram_id = tg)
                   \/ (api # None /\ u.api_id = api)}

\* DatabaseManager.create_user: find by any identifier, else INSERT; every
\* exception is swallowed and None returned
MgrCreateUser(wa, tg, api) ==
    /\ LET found == find_user_by_platform_id(wa, tg, api)
           row == UserRow(nextId.user, wa, tg, api)
       IN IF found # {}
          THEN /\ \E u \in found :
                    last' = Call("mgr.create_user", None, None, wa, tg, api, u.id)
               /\ UNCHANGED <<users, nextId>>
          ELSE IF UserUnique(row, users)
          THEN /\ users' = users \cup {row}
               /\ nextId' = [nextId EXCEPT !.user = @ + 1]
               /\ last' = Call("mgr.create_user", None, None, wa, tg, api, row.id)
          ELSE /\ last' = Call("mgr.create_user", None, None, wa, tg, api, None)
               /\ UNCHANGED <<users, nextId>>
    /\ UNCHANGED <<groups, members, ledger, clock, gateway>>

SetPlatformColumn(row, platform, v) ==
    CASE platform = "whatsapp" -> [row EXCEPT !.whatsapp_id = v]
      [] platform = "telegram" -> [row EXCEPT !.telegram_id = v]
      [] platform = "api" -> [row EXCEPT !.api_id = v]

PlatformIds(platform) ==
    CASE platform = "whatsapp" -> WaIds \ {None}
      [] platform = "telegram" -> TgIds \ {None}
      [] platform = "api" -> ApiIds \ {None}

\* DatabaseManager.update_user_platform_id: UPDATE users SET <column> = ?
\* WHERE id = ?; a constraint error is swallowed and False returned
MgrUpdateUserPlatformId(u, platform, v) ==
    /\ LET hit == {r \in users : r.id = u}
           new == {SetPlatformColumn(r, platform, v) : r \in hit}
           wa == IF platform = "whatsapp" THEN v ELSE None
           tg == IF platform = "telegram" THEN v ELSE None
           api == IF platform = "api" THEN v ELSE None
       IN IF \A r \in new : UserUnique(r, users)
          THEN /\ users' = (users \ hit) \cup new
               /\ last' = Call("mgr.update_user_platform_id", u, None, wa, tg, api,
                               IF hit # {} THEN 1 ELSE None)
          ELSE /\ last' = Call("mgr.update_user_platform_id", u, None, wa, tg, api, None)
               /\ UNCHANGED users
    /\ UNCHANGED <<groups, members, ledger, nextId, clock, gateway>>

\* DatabaseService.create_group
SvcCreateGroup(wa, tg) ==
    /\ LET row == GroupRow(nextId.group, wa, tg)
       IN IF GroupUnique(row, groups)
          THEN /\ groups' = groups \cup {row}
               /\ nextId' = [nextId EXCEPT !.group = @ + 1]
               /\ last' = Call("svc.create_group", None, None, wa, tg, None, row.id)
          ELSE /\ last' = Call("svc.create_group", None, None, wa, tg, None, Raised)
               /\ UNCHANGED <<groups, nextId>>
    /\ UNCHANGED <<users, members, ledger, clock, gateway>>

\* DatabaseService.find_or_create_group, run without interference
SvcFindOrCreateGroup(wa, tg) ==
    /\ LET g == find_group_first_supplied(wa, tg)
           row == GroupRow(nextId.group, wa, tg)
       IN IF g # None
          THEN /\ last' = Call("svc.find_or_create_group", None, None, wa, tg, None, g)
               /\ UNCHANGED <<groups, nextId>>
          ELSE IF GroupUnique(row, groups)
          THEN /\ groups' = groups \cup {row}
               /\ nextId' = [nextId EXCEPT !.group = @ + 1]
               /\ last' = Call("svc.find_or_create_group", None, None, wa, tg, None, row.id)
          ELSE /\ last' = Call("svc.find_or_create_group", None, None, wa, tg, None, Raised)
               /\ UNCHANGED <<groups, nextId>>
    /\ UNCHANGED <<users, members, ledger, clock, gateway>>

\* DatabaseManager.find_group_by_platform_id:
\* WHERE whatsapp_id = ? OR telegram_id = ? AND isActive = 1   (AND binds first)
find_group_by_platform_id(wa, tg) ==
    IF wa # None /\ tg # None
    THEN {g \in groups : g.whatsapp_id = wa \/ (g.telegram_id = tg /\ g.is_active)}
    ELSE IF wa # None THEN {g \in groups : g.whatsapp_id = wa /\ g.is_active}
    ELSE IF tg # None THEN {g \in groups : g.telegram_id = tg /\ g.is_active}
    ELSE {}

\* DatabaseManager.create_group
MgrCreateGroup(wa, tg) ==
    /\ LET found == find_group_by_platform_id(wa, tg)
           row == GroupRow(nextId.group, wa, tg)
       IN IF found # {}
          THEN /\ \E g \in found :
                    last' = Call("mgr.create_group", None, None, wa, tg, None, g.id)
               /\ UNCHANGED <<groups, nextId>>
          ELSE IF GroupUnique(row, groups)
          THEN /\ groups' = groups \cup {row}
               /\ nextId' = [nextId EXCEPT !.group = @ + 1]
               /\ last' = Call("mgr.create_group", None, None, wa, tg, None, row.id)
          ELSE /\ last' = Call("mgr.create_group", None, None, wa, tg, None, None)
               /\ UNCHANGED <<groups, nextId>>
    /\ UNCHANGED <<users, members, ledger, clock, gateway>>

MgrDeactivateGroupCascade(g) ==
    /\ groups' = {IF r.id = g THEN [r EXCEPT !.is_active = FALSE] ELSE r : r \in groups}
    /\ LET Keep(r) == r.group_id # g IN ledger' = SelectSeq(ledger, Keep)
    /\ last' = Call("mgr.deactivate_group", None, g, None, None, None,
                    IF g \in GroupIds THEN 1 ELSE None)
    /\ UNCHANGED <<users, members, nextId, clock, gateway>>

\* DatabaseManager.deactivate_group: UPDATE groups SET isActive = 0 WHERE id = ?
MgrDeactivateGroup(g) ==
    /\ groups' = {IF r.id = g THEN [r EXCEPT !.is_active = FALSE] ELSE r : r \in groups}
    /\ last' = Call("mgr.deactivate_group", None, g, None, None, None,
                    IF g \in GroupIds THEN 1 ELSE None)
    /\ UNCHANGED <<users, members, ledger, nextId, clock, gateway>>

\* DatabaseService.add_user_to_group: an unconditional INSERT
SvcAddUserToGroup(u, g, role) ==
    /\ LET row == MemberRow(nextId.member, u, g, role, clock)
       IN IF MemberUnique(row, members)
          THEN /\ members' = members \cup {row}
               /\ nextId' = [nextId EXCEPT !.member = @ + 1]
               /\ last' = Call("svc.add_user_to_group", u, g, None, None, None, row.id)
          ELSE /\ last' = Call("svc.add_user_to_group", u, g, None, None, None, Raised)
               /\ UNCHANGED <<members, nextId>>
    /\ UNCHANGED <<users, groups, ledger, clock, gateway>>

\* DatabaseService.remove_user_from_group: left_at = utcnow() on the active row
SvcRemoveUserFromGroupAnyRow(u, g) ==
    /\ members' = {IF m \in PairRows(u, g) THEN [m EXCEPT !.left_at = clock] ELSE m :
                    m \in members}
    /\ last' = Call("svc.remove_user_from_group", u, g, None, None, None,
                    IF PairRows(u, g) # {} THEN 1 ELSE None)
    /\ UNCHANGED <<users, groups, ledger, nextId, clock, gateway>>

SvcRemoveUserFromGroup(u, g) ==
    /\ members' = {IF m \in ActiveRows(u, g) THEN [m EXCEPT !.left_at = clock] ELSE m :
                    m \in members}
    /\ last' = Call("svc.remove_user_from_group", u, g, None, None, None,
                    IF ActiveRows(u, g) # {} THEN 1 ELSE None)
    /\ UNCHANGED <<users, groups, ledger, nextId, clock, gateway>>

\* DatabaseService.add_conversation
SvcAddConversation(u, g, msg, sender) ==
    /\ InsertConversation(u, g, msg, sender)
    /\ last' = Call("svc.add_conversation", u, g, None, None, None, nextId.conversation)
    /\ UNCHANGED <<users, groups, members, clock, gateway>>

\* DatabaseManager.get_group_membership: ORDER BY joined_at DESC LIMIT 1
mgr_get_group_membership(u, g) ==
    {m \in PairRows(u, g) : \A o \in PairRows(u, g) : o.joined_at <= m.joined_at}

\* DatabaseManager.add_user_to_group: keep an active row, reactivate a lapsed
\* one, else INSERT; every exception is swallowed and None returned
MgrAddUserToGroup(u, g, role) ==
    /\ LET row == MemberRow(nextId.member, u, g, role, clock)
       IN IF mgr_get_group_membership(u, g) # {}
          THEN \E existing \in mgr_get_group_membership(u, g) :
                IF existing.left_at = NoTime
                THEN /\ last' = Call("mgr.add_user_to_group", u, g, None, None, None,
                                     existing.id)
                     /\ UNCHANGED <<members, nextId>>
                ELSE /\ members' = {IF m \in PairRows(u, g)
                                    THEN [m EXCEPT !.left_at = NoTime, !.role = role,
                                                   !.joined_at = clock]
                                    ELSE m : m \in members}
                     /\ last' = Call("mgr.add_user_to_group", u, g, None, None, None,
                                     existing.id)
                     /\ UNCHANGED nextId
          ELSE IF MemberUnique(row, members)
          THEN /\ members' = members \cup {row}
               /\ nextId' = [nextId EXCEPT !.member = @ + 1]
               /\ last' = Call("mgr.add_user_to_group", u, g, None, None, None, row.id)
          ELSE /\ last' = Call("mgr.add_user_to_group", u, g, None, None, None, None)
               /\ UNCHANGED <<members, nextId>>
    /\ UNCHANGED <<users, groups, ledger, clock, gateway>>

\* DatabaseManager.remove_user_from_group: UPDATE ... WHERE left_at IS NULL
MgrRemoveUserFromGroup(u, g) ==
    /\ members' = {IF m \in ActiveRows(u, g) THEN [m EXCEPT !.left_at = clock] ELSE m :
                    m \in members}
    /\ last' = Call("mgr.remove_user_from_group", u, g, None, None, None,
                    IF ActiveRows(u, g) # {} THEN 1 ELSE None)
    /\ UNCHANGED <<users, groups, ledger, nextId, clock, gateway>>

\* DatabaseManager.store_conversation: the membership gate, then INSERT
MgrStoreConversation(u, g, msg, sender) ==
    /\ IF g # None /\ ~is_user_in_group(u, g)
       THEN /\ last' = Call("mgr.store_conversation", u, g, None, None, None, None)
            /\ UNCHANGED <<ledger, nextId>>
       ELSE /\ InsertConversation(u, g, msg, sender)
            /\ last' = Call("mgr.store_conversation", u, g, None, None, None,
                            nextId.conversation)
    /\ UNCHANGED <<users, groups, members, clock, gateway>>

\* ---- specifications -----------------------------------------------------
\* DatabaseManager.cleanup_old_conversations:
\* DELETE FROM conversations WHERE timestamp < datetime('now', '-N days');
\* the result is the number of rows deleted.
MgrCleanupOldConversations(days_old) ==
    /\ LET Keep(r) == ~(r.timestamp < clock - days_old)
       IN /\ ledger' = SelectSeq(ledger, Keep)
          /\ last' = Call("mgr.cleanup_old_conversations", None, None, None, None, None,
                          Len(ledger) - Len(SelectSeq(ledger, Keep)))
    /\ UNCHANGED <<users, groups, members, nextId, clock, gateway>>

\* DatabaseManager.delete_user: DELETE FROM users WHERE id = ?.  The rows that
\* reference the user go with it (ON DELETE CASCADE) when the connection
\* enforces foreign keys and stay when it does not: sqlite3.connect leaves
\* that to the default the SQLite library was built with.
MgrDeleteUser(u) ==
    /\ users' = {r \in users : r.id # u}
    /\ \/ /\ LET Keep(r) == r.user_id # u IN ledger' = SelectSeq(ledger, Keep)
          /\ members' = {m \in members : m.user_id # u}
       \/ UNCHANGED <<ledger, members>>
    /\ last' = Call("mgr.delete_user", u, None, None, None, None,
                    IF u \in UserIds THEN 1 ELSE None)
    /\ UNCHANGED <<groups, nextId, clock, gateway>>

\* ---- history endpoints (src/main.py) ---------------------------------------
Min(a, b) == IF a < b THEN a ELSE b

\* conversations[offset:offset + limit]
Slice(conversations, offset, limit) ==
    SubSeq(conversations, offset + 1, Min(offset + limit, Len(conversations)))

\* The answer of a history endpoint: the ConversationHistoryResponse and the
\* request it answers.
HistoryResponse(op, id, limit, offset, status, messages, has_more, total_count) ==
    [op |-> op, id |-> id, limit |-> limit, offset |-> offset, status |-> status,
     messages |-> messages, has_more |-> has_more, total_count |-> total_count]

\* has_more = len(conversations) > offset + limit
HasMore(conversations, offset, limit) == Len(conversations) > offset + limit

\* total_count = len(conversations) if not has_more else offset + limit + 1
TotalCount(conversations, offset, limit) ==
    IF ~HasMore(conversations, offset, limit)
    THEN Len(conversations) ELSE offset + limit + 1

\* GET /users/{user_id}/history
GetUserHistory(u, limit, offset) ==
    /\ IF u \notin UserIds
       THEN last' = HistoryResponse("get_user_conversation_history", u, limit, offset,
                                    404, <<>>, FALSE, 0)
       ELSE \E conversations \in get_conversation_history(u, None, limit + offset) :
                last' = HistoryResponse("get_user_conversation_history", u, limit,
                            offset, 200, Slice(conversations, offset, limit),
                            HasMore(conversations, offset, limit),
                            TotalCount(conversations, offset, limit))
    /\ UNCHANGED <<db, clock, gateway>>

\* GET /groups/{group_id}/history
GetGroupHistory(g, limit, offset) ==
    /\ IF g \notin GroupIds
       THEN last' = HistoryResponse("get_group_conversation_history", g, limit, offset,
                                    404, <<>>, FALSE, 0)
       ELSE \E conversations \in get_group_conversation_history(g, limit + offset) :
                last' = HistoryResponse("get_group_conversation_history", g, limit,
                            offset, 200, Slice(conversations, offset, limit),
                            HasMore(conversations, offset, limit),
                            TotalCount(conversations, offset, limit))
    /\ UNCHANGED <<db, clock, gateway>>

\* The pages a history endpoint can answer one request with
HistoryPages(op, id, limit, offset) ==
    {Slice(conversations, offset, limit) :
        conversations \in IF op = "get_user_conversation_history"
                          THEN get_conversation_history(id, None, limit + offset)
                          ELSE get_group_conversation_history(id, limit + offset)}

\* ---- specifications -------------------------------------------------------
Init ==
    /\ users = {}
    /\ groups = {}
    /\ members = {}
    /\ ledger = <<>>
    /\ nextId = [user |-> 1, group |-> 1, member |-> 1, conversation |-> 1]
    /\ clock = 0
    /\ pc = [p \in Procs |-> "idle"]
    /\ req = [p \in Procs |-> NoRequest]
    /\ loc = [p \in Procs |-> NoLocals]
    /\ last = NoCall

\* The requests of the gateway specification
ChatRequests ==
    {ChatRequest(m, wa, None, None, gwa, None, None) :
        m \in Messages, wa \in WaIds, gwa \in GroupWaIds}

Next ==
    \/ \E p \in Procs, r \in ChatRequests : Receive(p, r)
    \/ \E p \in Procs : FindUser(p)
    \/ \E p \in Procs : CreateUser(p)
    \/ \E p \in Procs : FindGroup(p)
    \/ \E p \in Procs : CreateGroup(p)
    \/ \E p \in Procs : GetMembership(p)
    \/ \E p \in Procs : AddMember(p)
    \/ \E p \in Procs : StoreUser(p)
    \/ \E p \in Procs : BuildContext(p)
    \/ \E p \in Procs : CallGenerator(p)
    \/ \E p \in Procs : GeneratorReturns(p)
    \/ \E p \in Procs : GeneratorRaises(p)
    \/ \E p \in Procs : StoreAi(p)
    \/ \E u \in UserIds, g \in GroupIds : SvcAddUserToGroup(u, g, "MEMBER")
    \/ \E u \in UserIds, g \in GroupIds : SvcRemoveUserFromGroup(u, g)
    \/ Tick

Spec == Init /\ [][Next]_vars

\* Identity resolution of both storage classes, called one call at a time
NextIdentity ==
    \/ \E t \in IdSets : SvcFindOrCreateUser(t[1], t[2], t[3])
    \/ \E t \in IdSets : SvcCreateUser(t[1], t[2], t[3])
    \/ \E t \in IdSets : MgrCreateUser(t[1], t[2], t[3])
    \/ \E u \in UserIds, pf \in Platforms :
            \E v \in PlatformIds(pf) : MgrUpdateUserPlatformId(u, pf, v)
    \/ \E t \in GroupIdSets : SvcFindOrCreateGroup(t[1], t[2])
    \/ \E t \in GroupIdSets : SvcCreateGroup(t[1], t[2])
    \/ \E t \in GroupIdSets : MgrCreateGroup(t[1], t[2])
    \/ \E g \in GroupIds : MgrDeactivateGroup(g)

SpecIdentity == Init /\ [][NextIdentity]_vars

\* Membership and ledger calls of both storage classes, one call at a time
NextStore ==
    \/ \E wa \in WaIds \ {None} : SvcFindOrCreateUser(wa, None, None)
    \/ \E wa \in GroupWaIds \ {None} : SvcFindOrCreateGroup(wa, None)
    \/ \E u \in UserIds, g \in GroupIds : SvcAddUserToGroup(u, g, "MEMBER")
    \/ \E u \in UserIds, g \in GroupIds : SvcRemoveUserFromGroup(u, g)
    \/ \E u \in UserIds, g \in GroupIds \cup {None}, m \in Messages :
            SvcAddConversation(u, g, m, "USER")
    \/ \E u \in UserIds, g \in GroupIds, role \in Roles : MgrAddUserToGroup(u, g, role)
    \/ \E u \in UserIds, g \in GroupIds : MgrRemoveUserFromGroup(u, g)
    \/ \E u \in UserIds, g \in GroupIds \cup {None}, m \in Messages :
            MgrStoreConversation(u, g, m, "USER")
    \/ Tick

SpecStore == Init /\ [][NextStore]_vars

\* The history endpoints over ledgers of one user and one group.  Row i was
\* written at time i, by the user and the generator in turn; a ledger is all
\* private, all of the group, private and group rows in turn, or all private
\* with each message and its answer written at the same time.
HistoryLedger(kind, n) ==
    [i \in 1..n |->
        ConversationRow(i, 1,
                        IF kind = "group" \/ (kind = "mixed" /\ i % 2 = 0)
                        THEN 1 ELSE None,
                        IF i % 2 = 1 THEN "hi" ELSE "hello",
                        IF i % 2 = 1 THEN "USER" ELSE "AI",
                        IF kind = "paired" THEN (i + 1) \div 2 ELSE i)]

InitHistory ==
    /\ users = {UserRow(1, 1, None, None)}
    /\ groups = {GroupRow(1, 1, None)}
    /\ members = {MemberRow(1, 1, 1, "MEMBER", 0)}
    /\ \E kind \in {"private", "group", "mixed", "paired"}, n \in 0..MaxEntries :
        /\ ledger = HistoryLedger(kind, n)
        /\ nextId = [user |-> 2, group |-> 2, member |-> 2, conversation |-> n + 1]
        /\ clock = n
    /\ pc = [p \in Procs |-> "idle"]
    /\ req = [p \in Procs |-> NoRequest]
    /\ loc = [p \in Procs |-> NoLocals]
    /\ last = NoCall

NextHistory ==
    \/ \E u \in 1..2, limit \in 1..MaxLimit, offset \in 0..MaxOffset :
            GetUserHistory(u, limit, offset)
    \/ \E g \in 1..2, limit \in 1..MaxLimit, offset \in 0..MaxOffset :
            GetGroupHistory(g, limit, offset)

SpecHistory == InitHistory /\ [][NextHistory]_vars

\* The gateway serving group and private messages of several senders
GroupChatRequests ==
    {ChatRequest(m, wa, None, None, gwa, None, None) :
        m \in Messages, wa \in 1..MaxSenders, gwa \in GroupWaIds}

NextGroupChat ==
    \/ \E p \in Procs, r \in GroupChatRequests : Receive(p, r)
    \/ \E p \in Procs : FindUser(p)
    \/ \E p \in Procs : CreateUser(p)
    \/ \E p \in Procs : FindGroup(p)
    \/ \E p \in Procs : CreateGroup(p)
    \/ \E p \in Procs : GetMembership(p)
    \/ \E p \in Procs : AddMember(p)
    \/ \E p \in Procs : StoreUser(p)
    \/ \E p \in Procs : BuildContext(p)
    \/ \E p \in Procs : CallGenerator(p)
    \/ \E p \in Procs : GeneratorReturns(p)
    \/ \E p \in Procs : GeneratorRaises(p)
    \/ \E p \in Procs : StoreAi(p)
    \/ Tick

SpecGroupChat == Init /\ [][NextGroupChat]_vars

\* Every operation that reads or writes the ledger, around one writer
NextLedger ==
    \/ \E wa \in WaIds \ {None} :
            nextId.user <= MaxUsers /\ SvcFindOrCreateUser(wa, None, None)
    \/ \E wa \in GroupWaIds \ {None} : SvcFindOrCreateGroup(wa, None)
    \/ \E u \in UserIds, g \in GroupIds :
            nextId.member <= MaxMembers /\ SvcAddUserToGroup(u, g, "MEMBER")
    \/ \E u \in UserIds, g \in GroupIds : SvcRemoveUserFromGroup(u, g)
    \/ \E u \in UserIds, g \in GroupIds \cup {None}, m \in Messages :
            SvcAddConversation(u, g, m, "USER")
    \/ \E g \in GroupIds : MgrDeactivateGroup(g)
    \/ \E u \in UserIds : GetUserHistory(u, MaxLedger, 0)
    \/ \E g \in GroupIds : GetGroupHistory(g, MaxLedger, 0)
    \/ \E days_old \in 0..MaxDays : MgrCleanupOldConversations(days_old)
    \/ \E u \in UserIds : MgrDeleteUser(u)
    \/ Tick

SpecLedger == Init /\ [][NextLedger]_vars

\* One private request of user 1 next to other writers of the same scope.
\* add_conversation stamps a row with the database's now(), which counts in
\* seconds: a writer writes in the current second or in a later one.
ContextRequests == {ChatRequest("ping", 1, None, None, None, None, None)}

\* DatabaseService.add_conversation, called in a later second
SvcAddConversationLater(u, g, msg, sender) ==
    /\ Len(ledger) < MaxContextRows
    /\ clock' = clock + 1
    /\ ledger' = Append(ledger,
                        ConversationRow(nextId.conversation, u, g, msg, sender, clock + 1))
    /\ nextId' = [nextId EXCEPT !.conversation = @ + 1]
    /\ last' = Call("svc.add_conversation", u, g, None, None, None, nextId.conversation)
    /\ UNCHANGED <<users, groups, members, gateway>>

NextContext ==
    \/ \E r \in ContextRequests : Receive(1, r)
    \/ FindUser(1)
    \/ CreateUser(1)
    \/ StoreUser(1)
    \/ BuildContext(1)
    \/ CallGenerator(1)
    \/ GeneratorReturns(1)
    \/ GeneratorRaises(1)
    \/ StoreAi(1)
    \/ \E m \in Messages : SvcAddConversation(1, None, m, "USER")
    \/ \E m \in Messages : SvcAddConversationLater(1, None, m, "USER")

SpecContext == Init /\ [][NextContext]_vars

\* The gateway receiving messages of text and messages of one space, which
\* pass the min_length=1 of ChatRequest.message
BlankRequests ==
    {ChatRequest(m, wa, None, None, gwa, None, None) :
        m \in Messages \cup {" "}, wa \in WaIds, gwa \in GroupWaIds}

NextBlank ==
    \/ \E p \in Procs, r \in BlankRequests : Receive(p, r)
    \/ \E p \in Procs : FindUser(p)
    \/ \E p \in Procs : CreateUser(p)
    \/ \E p \in Procs : FindGroup(p)
    \/ \E p \in Procs : CreateGroup(p)
    \/ \E p \in Procs : GetMembership(p)
    \/ \E p \in Procs : AddMember(p)
    \/ \E p \in Procs : StoreUser(p)
    \/ \E p \in Procs : BuildContext(p)
    \/ \E p \in Procs : CallGenerator(p)
    \/ \E p \in Procs : GeneratorReturns(p)
    \/ \E p \in Procs : GeneratorRaises(p)
    \/ \E p \in Procs : StoreAi(p)

SpecBlank == Init /\ [][NextBlank]_vars

\* DatabaseManager.store_conversation in its two database steps, run by a
\* thread p next to other callers: is_user_in_group reads through a connection
\* of its own, and the INSERT is committed afterwards through the caller's.
MgrStoreCheck(p, u, g, msg) ==
    /\ pc[p] = "idle"
    /\ IF g # None /\ ~is_user_in_group(u, g)
       THEN /\ last' = Call("mgr.store_conversation", u, g, None, None, None, None)
            /\ UNCHANGED gateway
       ELSE /\ pc' = [pc EXCEPT ![p] = "mgr_insert"]
            /\ req' = [req EXCEPT ![p].message = msg]
            /\ loc' = [loc EXCEPT ![p].user = u, ![p].group_id = g]
            /\ UNCHANGED last
    /\ UNCHANGED <<db, clock>>

MgrStoreInsert(p) ==
    /\ pc[p] = "mgr_insert"
    /\ InsertConversation(loc[p].user, loc[p].group_id, req[p].message, "USER")
    /\ last' = Call("mgr.store_conversation", loc[p].user, loc[p].group_id,
                    None, None, None, nextId.conversation)
    /\ pc' = [pc EXCEPT ![p] = "idle"]
    /\ req' = [req EXCEPT ![p] = NoRequest]
    /\ loc' = [loc EXCEPT ![p] = NoLocals]
    /\ UNCHANGED <<users, groups, members, clock>>

NextGate ==
    \/ \E wa \in WaIds \ {None} : SvcFindOrCreateUser(wa, None, None)
    \/ \E wa \in GroupWaIds \ {None} : SvcFindOrCreateGroup(wa, None)
    \/ \E u \in UserIds, g \in GroupIds, role \in Roles : MgrAddUserToGroup(u, g, role)
    \/ \E u \in UserIds, g \in GroupIds : MgrRemoveUserFromGroup(u, g)
    \/ \E p \in Procs, u \in UserIds, g \in GroupIds \cup {None}, m \in Messages :
            MgrStoreCheck(p, u, g, m)
    \/ \E p \in Procs : MgrStoreInsert(p)
    \/ Tick

SpecGate == Init /\ [][NextGate]_vars

\* The gateway receiving requests with and without a group name (1 is a
\* name, None is no name)
GroupNames == {None, 1}

NamedRequests ==
    {ChatRequest(m, wa, None, None, gwa, None, gname) :
        m \in Messages, wa \in WaIds, gwa \in GroupWaIds, gname \in GroupNames}

NextNamed ==
    \/ \E p \in Procs, r \in NamedRequests : Receive(p, r)
    \/ \E p \in Procs : FindUser(p)
    \/ \E p \in Procs : CreateUser(p)
    \/ \E p \in Procs : FindGroup(p)
    \/ \E p \in Procs : CreateGroup(p)
    \/ \E p \in Procs : GetMembership(p)
    \/ \E p \in Procs : AddMember(p)
    \/ \E p \in Procs : StoreUser(p)
    \/ \E p \in Procs : BuildContext(p)
    \/ \E p \in Procs : CallGenerator(p)
    \/ \E p \in Procs : GeneratorReturns(p)
    \/ \E p \in Procs : GeneratorRaises(p)
    \/ \E p \in Procs : StoreAi(p)

SpecNamed == Init /\ [][NextNamed]_vars

\* The gateway under fair scheduling.  A request is taken up only while the
\* ledger has room for both of its rows.  The event loop runs every coroutine
\* that can run; nothing in chat_endpoint or process_query bounds how long
\* the agent takes, so no fairness is put on its answer.
HasRoom(r) ==
    \/ NoPlatformId(r)
    \/ nextId.conversation + 1
        + 2 * Cardinality({q \in Procs : pc[q] \notin {"idle", "done"}}) <= MaxLedger

GatewayStep(p) ==
    \/ FindUser(p) \/ CreateUser(p) \/ FindGroup(p) \/ CreateGroup(p)
    \/ GetMembership(p) \/ AddMember(p) \/ StoreUser(p) \/ BuildContext(p)
    \/ CallGenerator(p) \/ StoreAi(p)

NextLive ==
    \/ \E p \in Procs, r \in ChatRequests : HasRoom(r) /\ Receive(p, r)
    \/ \E p \in Procs : GatewayStep(p)
    \/ \E p \in Procs : GeneratorReturns(p)
    \/ \E p \in Procs : GeneratorRaises(p)

SpecLive ==
    /\ Init
    /\ [][NextLive]_vars
    /\ \A p \in Procs : WF_vars(GatewayStep(p))

\* The gateway together with the membership calls of both storage classes
NextEnsure ==
    \/ \E p \in Procs, r \in ChatRequests : Receive(p, r)
    \/ \E p \in Procs : FindUser(p)
    \/ \E p \in Procs : CreateUser(p)
    \/ \E p \in Procs : FindGroup(p)
    \/ \E p \in Procs : CreateGroup(p)
    \/ \E p \in Procs : GetMembership(p)
    \/ \E p \in Procs : AddMember(p)
    \/ \E p \in Procs : StoreUser(p)
    \/ \E p \in Procs : BuildContext(p)
    \/ \E p \in Procs : CallGenerator(p)
    \/ \E p \in Procs : GeneratorReturns(p)
    \/ \E p \in Procs : GeneratorRaises(p)
    \/ \E p \in Procs : StoreAi(p)
    \/ \E u \in UserIds, g \in GroupIds : MgrAddUserToGroup(u, g, "ADMIN")
    \/ \E u \in UserIds, g \in GroupIds : MgrRemoveUserFromGroup(u, g)

SpecEnsure == Init /\ [][NextEnsure]_vars

\* ---- claims -------------------------------------------------------------
Limits == 1..MaxLedger

\* C1: scope isolation of history reads.  In every reachable state, private
\* history (group_id = None) of any user returns no row with a non-null
\* group_id, and group history of any group g returns only rows of group g.
C1_ScopeIsolation ==
    /\ \A u \in UserIds, limit \in Limits :
        /\ \A h \in get_conversation_history(u, None, limit) :
                \A i \in DOMAIN h : h[i].group_id = None /\ h[i].user_id = u
        /\ \A h \in mgr_get_conversation_history(u, limit) :
                \A i \in DOMAIN h : h[i].group_id = None /\ h[i].user_id = u
    /\ \A g \in GroupIds, limit \in Limits :
        \A h \in get_group_conversation_history(g, limit) :
            \A i \in DOMAIN h : h[i].group_id = g

\* C1 witness: one user owns both private rows and rows of a group, and both
\* reads return something.
C1_Witness ==
    \E u \in UserIds, g \in GroupIds :
        /\ \E i, j \in DOMAIN ledger :
            /\ ledger[i].user_id = u /\ ledger[i].group_id = None
            /\ ledger[j].user_id = u /\ ledger[j].group_id = g
        /\ \E h \in get_conversation_history(u, None, MaxLedger) : Len(h) > 0
        /\ \E h \in get_group_conversation_history(g, MaxLedger) : Len(h) > 0

\* The lines of a context text come, one each, from distinct ledger rows of
\* exactly the scope (u, g).
FromScopeOnly(text, u, g) ==
    LET rows == {j \in DOMAIN ledger :
                    ledger[j].user_id = u /\ ledger[j].group_id = g}
        n == Len(text) - 1
    IN \E s \in [1..n -> rows] :
            /\ \A i, j \in 1..n : s[i] = s[j] => i = j
            /\ \A i \in 1..n : text[i + 1] = ContextLine(ledger[s[i]])

\* C2: context scope isolation.  Every context text that
\* get_conversation_context_for_ai can build for a scope (u, g), g None or a
\* group, and every context a request holds for its generator call, is
\* rendered only from ledger rows of exactly that scope.  The context rows of
\* DatabaseManager.get_conversation_context_for_ai are the user's private rows
\* for a private context and rows of group g alone for a context of group g.
C2_ContextIsolation ==
    /\ \A u \in UserIds, g \in GroupIds \cup {None} :
        \A text \in get_conversation_context_for_ai(u, g, ContextLimit) :
            FromScopeOnly(text, u, g)
    /\ \A u \in UserIds, g \in GroupIds \cup {None}, limit \in Limits :
        \A c \in mgr_get_conversation_context_for_ai(u, g, limit) :
            \A i \in DOMAIN c :
                /\ c[i].group_id = g
                /\ g = None => c[i].user_id = u
    /\ \A p \in Procs :
        pc[p] \in {"generate", "generating", "store_ai"} =>
            FromScopeOnly(loc[p].ai_context, loc[p].user, loc[p].group_id)

\* C2 witness: a request holds a non-empty private context while the same
\* user also has group rows in the ledger (or the other way round).
C2_Witness ==
    \E p \in Procs :
        /\ pc[p] \in {"generate", "generating", "store_ai"}
        /\ Len(loc[p].ai_context) > 1
        /\ \E j \in DOMAIN ledger :
            /\ ledger[j].user_id = loc[p].user
            /\ ledger[j].group_id # loc[p].group_id

ActiveMember(u, g) ==
    \E m \in members : m.user_id = u /\ m.group_id = g /\ m.left_at = NoTime

\* C3: membership write gate.  A call of add_conversation / store_conversation
\* with a group id, for a user without an active membership in that group, is
\* answered with a rejection and adds no ledger row.
C3_WriteGate ==
    [][(/\ last' # last
        /\ last'.op \in {"svc.add_conversation", "mgr.store_conversation"}
        /\ last'.g # None
        /\ ~ActiveMember(last'.u, last'.g))
       => (last'.res = None /\ ledger' = ledger)]_vars

\* C4: sequential idempotence of find_or_create_user.  Once a call with a
\* non-empty identifier set has completed, it has returned a user id, and the
\* same call made next finds that same user in its lookup (so it returns the
\* same id and inserts nothing).
C4_SequentialIdempotence ==
    last.op = "svc.find_or_create_user" =>
        /\ last.res \in UserIds
        /\ find_user_first_supplied(last.wa, last.tg, last.api) = last.res

SharesIdentifier(a, b) ==
    \/ (a.whatsapp_id # None /\ a.whatsapp_id = b.whatsapp_id)
    \/ (a.telegram_id # None /\ a.telegram_id = b.telegram_id)
    \/ (a.api_id # None /\ a.api_id = b.api_id)

\* C5: no duplicate user under a race.  Whatever the interleaving of the
\* concurrent requests' find_or_create_user steps, no two user rows carry the
\* same identifier value.
C5_NoDuplicateUser ==
    \A a, b \in users : SharesIdentifier(a, b) => a = b

\* C5 witness: two requests with the same whatsapp_id both missed in the
\* lookup and both ran the insert; one row exists and the other insert was
\* refused.
C5_Witness ==
    \E p, q \in Procs :
        /\ p # q
        /\ req[p].whatsapp_id # None
        /\ req[p].whatsapp_id = req[q].whatsapp_id
        /\ loc[p].failed_at = "create_user"
        /\ loc[q].user # None
        /\ \E u \in users : u.id = loc[q].user /\ u.whatsapp_id = req[q].whatsapp_id

PastUserResolution(p) == pc[p] \notin {"idle", "find_user", "create_user"}

\* C6: race recovery.  When two requests with the same identifier are both
\* past find_or_create_user, both hold the same user id (the one whose insert
\* was refused re-read the winner's row) and neither was failed by the
\* duplicate insert.
C6_RaceRecovery ==
    \A p, q \in Procs :
        (/\ p # q
         /\ req[p].whatsapp_id # None
         /\ req[p].whatsapp_id = req[q].whatsapp_id
         /\ PastUserResolution(p)
         /\ PastUserResolution(q))
        => (/\ loc[p].user # None
            /\ loc[p].user = loc[q].user
            /\ loc[p].failed_at # "create_user")

\* C7: reuse on any matching identifier.  A find_or_create_user call, one of
\* whose supplied identifiers belongs to an existing user, returns an existing
\* user and inserts no row.
C7_ReuseOnAnyMatch ==
    [][(/\ last' # last
        /\ last'.op = "svc.find_or_create_user"
        /\ \E u \in users :
            \/ (last'.wa # None /\ u.whatsapp_id = last'.wa)
            \/ (last'.tg # None /\ u.telegram_id = last'.tg)
            \/ (last'.api # None /\ u.api_id = last'.api))
       => (last'.res \in UserIds /\ users' = users)]_vars

\* C8: identifier uniqueness.  After any sequence of create_user,
\* find_or_create_user, update_user_platform_id and the group operations, no
\* two users share a non-null identifier of one platform and no two groups
\* share a non-null group identifier of one platform.
C8_IdentifierUniqueness ==
    /\ \A a, b \in users : a.id # b.id =>
        /\ (a.whatsapp_id # None => a.whatsapp_id # b.whatsapp_id)
        /\ (a.telegram_id # None => a.telegram_id # b.telegram_id)
        /\ (a.api_id # None => a.api_id # b.api_id)
    /\ \A a, b \in groups : a.id # b.id =>
        /\ (a.whatsapp_id # None => a.whatsapp_id # b.whatsapp_id)
        /\ (a.telegram_id # None => a.telegram_id # b.telegram_id)
    /\ \A a, b \in users : a.id = b.id => a = b
    /\ \A a, b \in groups : a.id = b.id => a = b

\* C8 witness: update_user_platform_id was asked to give a user an identifier
\* that another user holds and changed nothing, in a state with two groups.
C8_Witness ==
    /\ last.op = "mgr.update_user_platform_id"
    /\ last.res = None
    /\ \E a, b \in users :
        /\ a.id = last.u /\ b.id # last.u
        /\ \/ (last.wa # None /\ b.whatsapp_id = last.wa)
           \/ (last.tg # None /\ b.telegram_id = last.tg)
           \/ (last.api # None /\ b.api_id = last.api)
    /\ Cardinality(groups) >= 2

\* C9: rejoin idempotence.  When a request runs its ensure-membership insert
\* for a pair whose membership was removed (the pair's row is lapsed), the
\* step succeeds and leaves exactly one row for the pair, active.
C9_RejoinIdempotence ==
    [][\A p \in Procs :
        (/\ pc[p] = "add_member"
         /\ pc'[p] # "add_member"
         /\ \E m \in members :
                /\ m.user_id = loc[p].user /\ m.group_id = loc[p].group_id
                /\ m.left_at # NoTime)
        => (/\ pc'[p] = "store_user"
            /\ \E m \in members' :
                /\ m.user_id = loc[p].user /\ m.group_id = loc[p].group_id
                /\ m.left_at = NoTime
                /\ \A o \in members' :
                    (o.user_id = m.user_id /\ o.group_id = m.group_id) => o = m)]_vars

\* C10: single active membership.  In every reachable state each
\* (user, group) pair has at most one membership row with left_at null.
C10_SingleActiveMembership ==
    \A a, b \in members :
        (/\ a.user_id = b.user_id /\ a.group_id = b.group_id
         /\ a.left_at = NoTime /\ b.left_at = NoTime)
        => a = b

\* C10 witness: a pair holds an active row and a further insert for the same
\* pair was attempted, by a direct add_user_to_group or by a request.
C10_Witness ==
    /\ \E m \in members : m.left_at = NoTime /\ m.user_id = last.u /\ m.group_id = last.g
    /\ last.op = "svc.add_user_to_group"
    /\ last.res = Raised
    /\ \E p \in Procs : PastUserResolution(p) /\ loc[p].group_id = last.g

\* C11: ensure-membership is idempotent.  When the pair has an active
\* membership, the gateway's ensure step (get_group_membership, then
\* add_user_to_group only when nothing was found) goes on without touching a
\* membership row, and DatabaseManager.add_user_to_group returns the id of
\* that membership and leaves every membership row (role, joined_at, left_at)
\* and their number unchanged, however often it is repeated.
C11_EnsureIdempotent ==
    [][/\ \A p \in Procs :
            (/\ pc[p] = "get_membership"
             /\ pc'[p] # "get_membership"
             /\ ActiveMember(loc[p].user, loc[p].group_id))
            => (pc'[p] = "store_user" /\ members' = members)
       /\ (/\ last' # last
           /\ last'.op = "mgr.add_user_to_group"
           /\ ActiveMember(last'.u, last'.g))
          => (/\ members' = members
              /\ \E m \in members :
                    /\ m.id = last'.res
                    /\ m.user_id = last'.u /\ m.group_id = last'.g
                    /\ m.left_at = NoTime)]_vars

\* C11 witness: DatabaseManager.add_user_to_group has answered for a pair
\* that holds an active ADMIN membership, and a request of the same pair went
\* past its ensure step without an insert failing.
C11_Witness ==
    /\ last.op = "mgr.add_user_to_group"
    /\ \E m \in members :
        /\ m.id = last.res /\ m.left_at = NoTime /\ m.role = "ADMIN"
        /\ \E p \in Procs :
            /\ loc[p].user = m.user_id /\ loc[p].group_id = m.group_id
            /\ pc[p] \in {"store_user", "build_context", "generate"}
            /\ Cardinality(members) = 1

\* C12: concurrent safety of resolve-or-create-group and ensure-membership.
\* Of two identical group requests, neither is failed by the insert of a group
\* row or of a membership row while the other one's row for the same group
\* identifier, or for the same pair, is in place and active.
C12_ConcurrentEnsure ==
    \A p, q \in Procs :
        (/\ p # q
         /\ req[p] = req[q]
         /\ HasGroupIds(req[p])
         /\ pc[p] = "done")
        => /\ loc[p].failed_at # "create_group"
           /\ (loc[p].failed_at = "add_user_to_group" =>
                    ~ActiveMember(loc[p].user, loc[p].group_id))

\* The row returned by the request's first add_conversation is in the ledger:
\* a USER row of the request's user and scope carrying the request's message.
UserEntryCommitted(p) ==
    \E i \in DOMAIN ledger :
        /\ ledger[i].id = loc[p].user_entry
        /\ ledger[i].sender = "USER"
        /\ ledger[i].user_id = loc[p].user
        /\ ledger[i].message = req[p].message

\* C13: inbound-before-generator ordering.  The call of process_query begins
\* only when the request's USER row is committed and no AI row was written for
\* it; a USER row is appended only by a request that has not yet called the
\* generator; an AI row is appended only by a request whose generator call
\* has returned a reply, after its USER row.
C13_InboundBeforeGenerator ==
    [][/\ \A p \in Procs :
            (pc[p] = "generate" /\ pc'[p] = "generating")
            => (UserEntryCommitted(p) /\ loc[p].ai_entry = None)
       /\ Len(ledger') > Len(ledger) =>
            LET row == ledger'[Len(ledger')]
            IN \E p \in Procs :
                \/ /\ row.sender = "USER"
                   /\ pc[p] = "store_user" /\ pc'[p] = "build_context"
                   /\ loc'[p].user_entry = row.id
                \/ /\ row.sender = "AI"
                   /\ pc[p] = "store_ai" /\ pc'[p] = "done"
                   /\ loc[p].ai_response \in Replies
                   /\ row.message = loc[p].ai_response
                   /\ UserEntryCommitted(p)
                   /\ loc[p].user_entry < row.id]_vars

\* C13 witness: a request has completed with its USER row, then its AI row.
C13_Witness ==
    \E p \in Procs, i, j \in DOMAIN ledger :
        /\ loc[p].status = 200
        /\ i < j
        /\ ledger[i].id = loc[p].user_entry /\ ledger[i].sender = "USER"
        /\ ledger[j].id = loc[p].ai_entry /\ ledger[j].sender = "AI"

\* C14: generator failure outcome.  A request whose process_query call raised
\* has ended with an error status; its USER row is in the ledger, no AI row
\* was written for it, and the user row, the group row and the membership row
\* of its earlier steps are still there.
C14_GeneratorFailure ==
    \A p \in Procs :
        (pc[p] = "done" /\ loc[p].failed_at = "process_query")
        => /\ loc[p].status >= 400
           /\ UserEntryCommitted(p)
           /\ loc[p].ai_entry = None
           /\ \A i \in DOMAIN ledger :
                ledger[i].sender = "AI" => ledger[i].id < loc[p].user_entry
                    \/ \E q \in Procs \ {p} : loc[q].ai_entry = ledger[i].id
           /\ loc[p].user \in UserIds
           /\ loc[p].group_id # None =>
                /\ loc[p].group_id \in GroupIds
                /\ PairRows(loc[p].user, loc[p].group_id) # {}

\* C14 witness: a group request failed in process_query.
C14_Witness ==
    \E p \in Procs :
        /\ pc[p] = "done"
        /\ loc[p].failed_at = "process_query"
        /\ loc[p].group_id # None
        /\ Len(ledger) > 0

\* The rows of the user's private scope, oldest first
PrivateRows(u) ==
    LET S == Scope(u, None)
    IN [k \in 1..Cardinality(S) |->
            ledger[CHOOSE i \in S : Cardinality({j \in S : j <= i}) = k]]

\* C15: pagination correctness.  With 12 entries in the user's private scope,
\* the history request with limit 5 and offset 5 answers with the entries
\* ranked 6 to 10 (counted from the newest, or counted from the oldest),
\* oldest first, and has_more true.
C15_Pagination ==
    (/\ last.op = "get_user_conversation_history"
     /\ last.status = 200
     /\ last.limit = 5 /\ last.offset = 5
     /\ Cardinality(Scope(last.id, None)) = 12)
    => /\ last.has_more
       /\ \/ last.messages = SubSeq(PrivateRows(last.id), 3, 7)
          \/ last.messages = SubSeq(PrivateRows(last.id), 6, 10)

\* The number of entries in the scope a history answer is about
ScopeCount(r) ==
    IF r.op = "get_user_conversation_history"
    THEN Cardinality(Scope(r.id, None))
    ELSE Cardinality(GroupScope(r.id))

\* C16: has_more / total_count contract of both history endpoints.  has_more
\* is true exactly when the scope holds more than offset + limit entries;
\* total_count is the number of entries of the scope when has_more is false
\* and offset + limit + 1 when it is true.
C16_HasMoreTotalCount ==
    (/\ last.op \in {"get_user_conversation_history", "get_group_conversation_history"}
     /\ last.status = 200)
    => /\ last.has_more <=> (ScopeCount(last) > last.offset + last.limit)
       /\ ~last.has_more => last.total_count = ScopeCount(last)
       /\ last.has_more => last.total_count = last.offset + last.limit + 1

\* C17: rejection without identifiers.  A request that supplies none of
\* whatsapp_id, telegram_id and api_id is answered 400 by the validation, in
\* the step that receives it: no user, group, membership or ledger row is
\* touched, and the request never resolves a user, stores an entry or calls
\* the generator.
C17_RejectWithoutIdentifiers ==
    [][\A p \in Procs :
        (/\ pc'[p] # "idle"
         /\ req'[p].whatsapp_id = None
         /\ req'[p].telegram_id = None
         /\ req'[p].api_id = None)
        => /\ pc'[p] = "done"
           /\ loc'[p].status = 400
           /\ loc'[p].failed_at = "validate"
           /\ loc'[p].user = None
           /\ loc'[p].user_entry = None
           /\ loc'[p].ai_response = ""
           /\ pc[p] = "idle" => db' = db]_vars

\* C17 witness: a request without identifiers was rejected while the database
\* holds rows of another request.
C17_Witness ==
    \E p \in Procs :
        /\ pc[p] = "done"
        /\ loc[p].failed_at = "validate"
        /\ req[p].whatsapp_id = None /\ req[p].telegram_id = None /\ req[p].api_id = None
        /\ users # {}
        /\ Len(ledger) > 0

\* The ledger row with a given id
EntryRow(id) == ledger[CHOOSE i \in DOMAIN ledger : ledger[i].id = id]

\* C18: scope consistency within one request.  For every request answered
\* 200, conversation_type is "group" exactly when the returned group_id is
\* not null and "private" otherwise, and the USER row, the context given to
\* the generator and the AI row are all of the scope (user id, group id) of
\* the answer.
C18_ScopeConsistency ==
    \A p \in Procs :
        loc[p].status = 200
        => /\ loc[p].conversation_type = "group" <=> loc[p].group_id # None
           /\ loc[p].conversation_type = "private" <=> loc[p].group_id = None
           /\ \E i \in DOMAIN ledger : ledger[i].id = loc[p].user_entry
           /\ \E i \in DOMAIN ledger : ledger[i].id = loc[p].ai_entry
           /\ EntryRow(loc[p].user_entry).user_id = loc[p].user
           /\ EntryRow(loc[p].user_entry).group_id = loc[p].group_id
           /\ EntryRow(loc[p].user_entry).sender = "USER"
           /\ EntryRow(loc[p].ai_entry).user_id = loc[p].user
           /\ EntryRow(loc[p].ai_entry).group_id = loc[p].group_id
           /\ EntryRow(loc[p].ai_entry).sender = "AI"
           /\ FromScopeOnly(loc[p].ai_context, loc[p].user, loc[p].group_id)
           /\ loc[p].ai_context[1] \in
                (IF loc[p].group_id # None
                 THEN {<<"Recent group conversation:">>,
                       <<"This is the beginning of your group chat conversation.">>}
                 ELSE {<<"Recent private conversation:">>,
                       <<"This is the beginning of your private chat conversation.">>})

\* C18 witness: a group request was answered 200 while the ledger also holds
\* a private row.
C18_Witness ==
    \E p \in Procs :
        /\ loc[p].status = 200
        /\ loc[p].group_id # None
        /\ \E i \in DOMAIN ledger : ledger[i].group_id = None

\* C19: first-message context.  When a user no other request is about sends a
\* message without group identifiers and the private ledger of that user held
\* nothing before, the generator is called with the canned context "This is
\* the beginning of your private chat conversation.", and once the answer is
\* 200 the private ledger of the user is one USER row followed by one AI row.
C19_FirstMessageContext ==
    \A p \in Procs :
        (/\ ~HasGroupIds(req[p])
         /\ loc[p].user # None
         /\ \A q \in Procs \ {p} : loc[q].user # loc[p].user
         /\ \A i \in Scope(loc[p].user, None) :
                ledger[i].id \in {loc[p].user_entry, loc[p].ai_entry})
        => /\ pc[p] \in {"generating", "store_ai"} =>
                loc[p].ai_context =
                    << <<"This is the beginning of your private chat conversation.">> >>
           /\ loc[p].status = 200 =>
                /\ Cardinality(Scope(loc[p].user, None)) = 2
                /\ PrivateRows(loc[p].user)[1].id = loc[p].user_entry
                /\ PrivateRows(loc[p].user)[2].id = loc[p].ai_entry

\* C20: cross-user group visibility without private leakage.  When two
\* requests of different users have posted into the group of one group
\* identifier, both hold the same group id, every group history of that group
\* contains both messages, and no private history of either user contains a
\* message posted into the group.
C20_GroupVisibility ==
    \A p, q \in Procs :
        (/\ p # q
         /\ req[p].group_whatsapp_id # None
         /\ req[p].group_whatsapp_id = req[q].group_whatsapp_id
         /\ loc[p].user # loc[q].user
         /\ loc[p].user_entry # None
         /\ loc[q].user_entry # None)
        => /\ loc[p].group_id = loc[q].group_id
           /\ loc[p].group_id # None
           /\ \A h \in get_group_conversation_history(loc[p].group_id, MaxLedger) :
                \E i \in DOMAIN h :
                    h[i].id = loc[p].user_entry /\ h[i].user_id = loc[p].user
           /\ \A h \in get_conversation_history(loc[q].user, None, MaxLedger) :
                \A i \in DOMAIN h :
                    h[i].id \notin {loc[p].user_entry, loc[q].user_entry,
                                    loc[p].ai_entry, loc[q].ai_entry}

\* C20 witness: two users have posted into one group, one after the other.
C20_Witness ==
    \E p, q \in Procs :
        /\ loc[p].user # None /\ loc[q].user # None
        /\ loc[p].user # loc[q].user
        /\ loc[p].group_id # None
        /\ loc[p].group_id = loc[q].group_id
        /\ loc[p].user_entry # None /\ loc[q].user_entry # None
        /\ loc[p].user_entry < loc[q].user_entry
        /\ loc[p].status = 200

\* C21: soft-deleted groups.  A deactivated group is returned by no lookup by
\* platform identifier, whatever whatsapp and telegram identifiers are
\* supplied: not by DatabaseService.get_group_by_platform_id, not by the lookup
\* of find_or_create_group, not by DatabaseManager.find_group_by_platform_id.
C21_SoftDeletedGroups ==
    \A g \in groups :
        ~g.is_active =>
            /\ \A pf \in {"whatsapp", "telegram"}, v \in GroupWaIds \cup GroupTgIds :
                    v # None => get_group_by_platform_id(pf, v) # g.id
            /\ \A t \in GroupIdSets :
                /\ find_group_first_supplied(t[1], t[2]) # g.id
                /\ g \notin find_group_by_platform_id(t[1], t[2])

\* The step is a direct call of the operation op (or changes nothing).
IsCall(op) == last'.op = op /\ gateway' = gateway /\ clock' = clock

\* Every ledger row is still there after the step, with all its fields
EntriesKept == \A i \in DOMAIN ledger : \E j \in DOMAIN ledger' : ledger'[j] = ledger[i]

RequestStep(p) ==
    \/ FindUser(p) \/ CreateUser(p) \/ FindGroup(p) \/ CreateGroup(p)
    \/ GetMembership(p) \/ AddMember(p) \/ BuildContext(p)

\* C23: non-blocking generator call.  While a request is inside process_query
\* every other request that is at a lookup, an insert of a user, group or
\* membership row or a history read for its context can take that step.
C23_NonBlockingGenerator ==
    \A p, q \in Procs :
        (/\ p # q
         /\ pc[p] = "generating"
         /\ pc[q] \in {"find_user", "create_user", "find_group", "create_group",
                       "get_membership", "add_member", "build_context"})
        => ENABLED RequestStep(q)

\* C24: bounded generator wait.  Every request that has stored its inbound
\* message eventually ends, with a response or with a surfaced failure.
C24_BoundedGeneratorWait ==
    \A p \in Procs : (loc[p].user_entry # None) ~> (pc[p] = "done")

\* C25: scope is decided by the request alone.  Whatever the ledger and the
\* memberships hold, a request without group identifiers writes its rows with
\* group_id None and reads its context with group_id None, and a request with
\* a group identifier writes and reads with the id of a group.
C25_ScopeByRequest ==
    \A p \in Procs :
        LET grp == req[p].group_whatsapp_id # None \/ req[p].group_telegram_id # None
        IN /\ loc[p].user_entry # None
              => /\ EntryRow(loc[p].user_entry).group_id = None <=> ~grp
                 /\ EntryRow(loc[p].user_entry).group_id = loc[p].group_id
                 /\ grp => \E g \in groups : g.id = loc[p].group_id
           /\ pc[p] \in {"generate", "generating", "store_ai"}
              => /\ FromScopeOnly(loc[p].ai_context, loc[p].user, loc[p].group_id)
                 /\ loc[p].group_id = None <=> ~grp
                 /\ loc[p].ai_context[1] \in
                      (IF grp
                       THEN {<<"Recent group conversation:">>,
                             <<"This is the beginning of your group chat conversation.">>}
                       ELSE {<<"Recent private conversation:">>,
                             <<"This is the beginning of your private chat conversation.">>})
           /\ loc[p].ai_entry # None
              => EntryRow(loc[p].ai_entry).group_id = None <=> ~grp

\* C25 witness: a request without group identifiers has stored its row and
\* read its context while its user is an active member of a group that holds
\* rows of that user; or a request with a group identifier has done so while
\* its user has private rows.
C25_Witness ==
    \E p \in Procs :
        /\ pc[p] \in {"generate", "generating", "store_ai"}
        /\ loc[p].user_entry # None
        /\ \/ /\ ~HasGroupIds(req[p])
              /\ \E g \in GroupIds :
                    /\ ActiveMember(loc[p].user, g)
                    /\ \E i \in DOMAIN ledger :
                        ledger[i].user_id = loc[p].user /\ ledger[i].group_id = g
           \/ /\ HasGroupIds(req[p])
              /\ \E i \in DOMAIN ledger :
                    ledger[i].user_id = loc[p].user /\ ledger[i].group_id = None

\* C26: group history ignores membership at read time.  Whatever the
\* membership rows are, get_group_conversation_history(g) of DatabaseService
\* returns exactly the ledger rows of g, and that of DatabaseManager exactly
\* the ledger rows of g whose author is a row of users; the rows of an author
\* who has left g are among them.
C26_GroupHistoryIgnoresMembership ==
    \A g \in GroupIds :
        LET rows == {ledger[i] : i \in {j \in DOMAIN ledger : ledger[j].group_id = g}}
        IN /\ \A h \in get_group_conversation_history(g, Len(ledger)) :
                {h[i] : i \in DOMAIN h} = rows
           /\ \A h \in mgr_get_group_conversation_history(g, Len(ledger), 0) :
                {h[i] : i \in DOMAIN h} =
                    {r \in rows : \E u \in users : u.id = r.user_id}

\* C26 witness: a user wrote a row in g while an active member and left g
\* afterwards; the row is in the ledger and the user exists.
C26_Witness ==
    \E u \in users, g \in GroupIds, i \in DOMAIN ledger :
        /\ ledger[i].user_id = u.id /\ ledger[i].group_id = g
        /\ ActiveRows(u.id, g) = {}
        /\ \E m \in PairRows(u.id, g) :
            m.joined_at <= ledger[i].timestamp /\ ledger[i].timestamp <= m.left_at

\* C27: get_group_membership returns the most recent membership row of a
\* pair, active or lapsed.  Whenever the pair has a membership row, the read
\* of DatabaseService and the read of DatabaseManager both return one, and it
\* is a row of the pair with the latest joined_at.
C27_MembershipActiveOrLapsed ==
    \A u \in UserIds, g \in GroupIds :
        PairRows(u, g) # {}
        => /\ svc_get_group_membership(u, g) # None
           /\ \E m \in PairRows(u, g) :
                /\ m.id = svc_get_group_membership(u, g)
                /\ \A o \in PairRows(u, g) : o.joined_at <= m.joined_at
           /\ mgr_get_group_membership(u, g) # {}
           /\ mgr_get_group_membership(u, g) \subseteq PairRows(u, g)

\* C28: remove_user_from_group.  A call returns true exactly when the pair
\* had an active membership row; it then sets left_at on that row and leaves
\* every other field and every other row as they were.  Without an active row
\* it returns false and the membership rows stay as they were.  No other
\* table changes.
C28_RemoveMembership ==
    [][(/\ last' # last
        /\ last'.op \in {"svc.remove_user_from_group", "mgr.remove_user_from_group"})
       => LET act == {m \in members : /\ m.user_id = last'.u
                                      /\ m.group_id = last'.g
                                      /\ m.left_at = NoTime}
          IN /\ last'.res = 1 <=> act # {}
             /\ last'.res = None <=> act = {}
             /\ Cardinality(act) <= 1
             /\ act = {} => members' = members
             /\ members \ act \subseteq members'
             /\ Cardinality(members') = Cardinality(members)
             /\ \A m \in act :
                    \E n \in members' :
                        /\ n.left_at # NoTime
                        /\ [n EXCEPT !.left_at = NoTime] = m
             /\ UNCHANGED <<users, groups, ledger>>]_vars

\* C28 witness: the second of two consecutive removals of a pair has returned
\* false; the row it found is the lapsed one.
C28_Witness ==
    /\ last.op \in {"svc.remove_user_from_group", "mgr.remove_user_from_group"}
    /\ last.res = None
    /\ PairRows(last.u, last.g) # {}
    /\ \A m \in PairRows(last.u, last.g) : m.left_at # NoTime

\* C29: ordering of a history page.  Every page a history endpoint answers
\* with is sorted by timestamp, oldest first, has at most `limit` entries,
\* holds distinct entries of the scope only, and is a contiguous run of the
\* scope in timestamp order: no entry of the scope that is left out lies
\* strictly between the first and the last timestamp of the page.
C29_PageOrdering ==
    (/\ last.op \in {"get_user_conversation_history", "get_group_conversation_history"}
     /\ last.status = 200)
    => LET m == last.messages
           scope == IF last.op = "get_user_conversation_history"
                    THEN {ledger[i] : i \in {j \in DOMAIN ledger :
                                /\ ledger[j].user_id = last.id
                                /\ ledger[j].group_id = None}}
                    ELSE {ledger[i] : i \in {j \in DOMAIN ledger :
                                ledger[j].group_id = last.id}}
       IN /\ Len(m) <= last.limit
          /\ \A i, j \in DOMAIN m : i < j => m[i].timestamp <= m[j].timestamp
          /\ \A i, j \in DOMAIN m : m[i] = m[j] => i = j
          /\ \A i \in DOMAIN m : m[i] \in scope
          /\ \A r \in scope :
                (\A i \in DOMAIN m : m[i] # r) /\ Len(m) > 0
                => \/ r.timestamp <= m[1].timestamp
                   \/ r.timestamp >= m[Len(m)].timestamp

\* C29 witness: a page of several entries was cut with a positive offset
\* out of a longer scope in which two entries share a timestamp, and an older
\* entry of the scope is left out.
C29_Witness ==
    /\ last.op \in {"get_user_conversation_history", "get_group_conversation_history"}
    /\ last.status = 200
    /\ last.offset > 0
    /\ Len(last.messages) > 1
    /\ \E i \in DOMAIN ledger :
        /\ ledger[i].timestamp < last.messages[1].timestamp
        /\ ledger[i].group_id = last.messages[1].group_id
    /\ \E i, j \in DOMAIN last.messages :
        i # j /\ last.messages[i].timestamp = last.messages[j].timestamp

\* C30: membership is ensured before the group write.  In every step in which
\* a request appends its inbound USER row with a group id, the user of the
\* request has an active membership row in that group.
C30_MembershipBeforeGroupWrite ==
    [][\A p \in Procs :
        (/\ pc[p] = "store_user"
         /\ pc'[p] = "build_context"
         /\ loc[p].group_id # None)
        => \E m \in members :
            /\ m.user_id = loc[p].user
            /\ m.group_id = loc[p].group_id
            /\ m.left_at = NoTime]_vars

\* The ledger positions of one sender in the scope (u, g)
SenderRows(u, g, sender) ==
    {i \in DOMAIN ledger : /\ ledger[i].user_id = u
                           /\ ledger[i].group_id = g
                           /\ ledger[i].sender = sender}

\* C31: every AI entry has its USER entry.  In every ledger the gateway
\* produces, failed and concurrent requests included, each scope (user id,
\* group id) holds at most as many AI rows as USER rows, and each AI row was
\* written by a request whose own USER row is an earlier row of the same
\* scope.
C31_AiEntryHasUserEntry ==
    /\ \A u \in UserIds, g \in GroupIds \cup {None} :
        Cardinality(SenderRows(u, g, "AI")) <= Cardinality(SenderRows(u, g, "USER"))
    /\ \A i \in DOMAIN ledger :
        ledger[i].sender = "AI"
        => \E p \in Procs :
            /\ loc[p].ai_entry = ledger[i].id
            /\ \E j \in 1..(i - 1) :
                /\ ledger[j].id = loc[p].user_entry
                /\ ledger[j].sender = "USER"
                /\ ledger[j].user_id = ledger[i].user_id
                /\ ledger[j].group_id = ledger[i].group_id

\* C31 witness: one request of a group scope was answered and stored its AI
\* row, while another request of the same user stored its USER row and then
\* failed in the generator.
C31_Witness ==
    \E p, q \in Procs :
        /\ p # q
        /\ loc[p].status = 200 /\ loc[p].ai_entry # None /\ loc[p].group_id # None
        /\ loc[q].status = 500 /\ loc[q].user_entry # None
        /\ loc[q].user = loc[p].user

\* C32: the context handed to the generator contains the request's own
\* inbound message.  In every step that builds the context of a request, if
\* fewer than 10 other rows of the scope were appended after the request's
\* USER row, the context has the line of that row.
C32_ContextHasOwnMessage ==
    [][\A p \in Procs :
        (/\ pc[p] = "build_context"
         /\ pc'[p] = "generate"
         /\ Cardinality({i \in DOMAIN ledger :
                            /\ ledger[i].user_id = loc[p].user
                            /\ ledger[i].group_id = loc[p].group_id
                            /\ \E j \in 1..(i - 1) : ledger[j].id = loc[p].user_entry})
                < ContextLimit)
        => \E k \in DOMAIN loc'[p].ai_context :
                loc'[p].ai_context[k] = ContextLine(EntryRow(loc[p].user_entry))]_vars

\* C33: group context in the gateway is per user.  The rows behind a context
\* that DatabaseService builds for (u, g) all have user_id u and group_id g;
\* the text has no more lines than u has rows in g, and is the canned opening
\* when u has none, whatever the other members posted into g.  The same holds
\* of the context a group request holds for its generator call.
C33_GroupContextPerUser ==
    /\ \A u \in UserIds, g \in GroupIds :
        LET own == {i \in DOMAIN ledger :
                        ledger[i].user_id = u /\ ledger[i].group_id = g}
        IN /\ \A h \in get_conversation_history(u, g, ContextLimit) :
                \A i \in DOMAIN h : h[i].user_id = u /\ h[i].group_id = g
           /\ \A text \in get_conversation_context_for_ai(u, g, ContextLimit) :
                /\ Len(text) - 1 <= Cardinality(own)
                /\ own = {} =>
                    text = <<(<<"This is the beginning of your group chat conversation.">>)>>
    /\ \A p \in Procs :
        (pc[p] \in {"generate", "generating", "store_ai"} /\ loc[p].group_id # None)
        => /\ Len(loc[p].ai_context) - 1
                <= Cardinality({i \in DOMAIN ledger :
                                    /\ ledger[i].user_id = loc[p].user
                                    /\ ledger[i].group_id = loc[p].group_id})
           /\ \A k \in 2..Len(loc[p].ai_context) :
                \E i \in DOMAIN ledger :
                    /\ ledger[i].user_id = loc[p].user
                    /\ ledger[i].group_id = loc[p].group_id
                    /\ loc[p].ai_context[k] = ContextLine(ledger[i])

\* C33 witness: a group request holds its context for the generator, and
\* another member had posted into the same group before the request stored
\* its own message.
C33_Witness ==
    \E p \in Procs :
        /\ pc[p] \in {"generate", "generating", "store_ai"}
        /\ loc[p].group_id # None
        /\ Len(loc[p].ai_context) > 1
        /\ \E i \in DOMAIN ledger :
            /\ ledger[i].group_id = loc[p].group_id
            /\ ledger[i].user_id # loc[p].user
            /\ ledger[i].id < loc[p].user_entry

\* C34: client-fault outcomes have no side effects.  A request that ends with
\* HTTP 400 ended before any storage operation: it resolved or created no
\* user and no group, and no ledger row is its inbound message.
C34_ClientFaultNoSideEffect ==
    \A p \in Procs :
        loc[p].status = 400
        => /\ loc[p].user = None
           /\ loc[p].group_id = None
           /\ loc[p].user_entry = None

\* C35: the write gate under concurrent removal.  Whatever the interleaving
\* of DatabaseManager.store_conversation(u, g) with remove_user_from_group,
\* in every step that inserts a row of u with the id of group g, u has an
\* active membership row in g.
C35_GateUnderRemoval ==
    [][\A p \in Procs :
        (/\ pc[p] = "mgr_insert"
         /\ pc'[p] = "idle"
         /\ loc[p].group_id # None)
        => \E m \in members :
            /\ m.user_id = loc[p].user
            /\ m.group_id = loc[p].group_id
            /\ m.left_at = NoTime]_vars

\* C36: the reply follows its question in history.  For every request
\* answered 200, every history of its scope that DatabaseService can return
\* holds the USER row of the request before its AI row, also when both rows
\* carry the same timestamp.
C36_ReplyFollowsQuestion ==
    \A p \in Procs :
        loc[p].status = 200
        => \A h \in get_conversation_history(loc[p].user, loc[p].group_id, Len(ledger)) :
            \E i, j \in DOMAIN h :
                /\ i < j
                /\ h[i].id = loc[p].user_entry
                /\ h[j].id = loc[p].ai_entry

\* C37: pages do not overlap.  On one ledger, the page answered for offset
\* k * limit shares no entry with any page the endpoint answers for the
\* offsets 0, limit, ..., (k - 1) * limit, and once (k + 1) * limit reaches the
\* number of entries of the scope these pages together hold every entry of
\* the scope.
C37_PagesDoNotOverlap ==
    (/\ last.op \in {"get_user_conversation_history", "get_group_conversation_history"}
     /\ last.status = 200
     /\ last.offset % last.limit = 0)
    => LET k == last.offset \div last.limit
           page == {last.messages[i] : i \in DOMAIN last.messages}
           earlier == UNION {{pg[i] : i \in DOMAIN pg} :
                        pg \in UNION {HistoryPages(last.op, last.id, last.limit,
                                                   j * last.limit) : j \in 0..(k - 1)}}
           scope == IF last.op = "get_user_conversation_history"
                    THEN {ledger[i] : i \in {j \in DOMAIN ledger :
                                /\ ledger[j].user_id = last.id
                                /\ ledger[j].group_id = None}}
                    ELSE {ledger[i] : i \in {j \in DOMAIN ledger :
                                ledger[j].group_id = last.id}}
       IN /\ page \cap earlier = {}
          /\ (k + 1) * last.limit >= Cardinality(scope) => page \cup earlier = scope

\* C38: a group name alone does not open group scope.  A request that has a
\* group_name but neither group_whatsapp_id nor group_telegram_id takes no
\* step that changes a group or a membership row; after each of its steps it
\* holds no group id and conversation_type "private", and the rows it has
\* written have group_id None.
C38_GroupNameAlone ==
    [][\A p \in Procs :
        (/\ req'[p].group_name # None
         /\ req'[p].group_whatsapp_id = None
         /\ req'[p].group_telegram_id = None
         /\ <<pc[p], req[p], loc[p]>> # <<pc'[p], req'[p], loc'[p]>>)
        => /\ groups' = groups
           /\ members' = members
           /\ pc'[p] \notin {"find_group", "create_group", "get_membership", "add_member"}
           /\ loc'[p].group_id = None
           /\ loc'[p].conversation_type = "private"
           /\ \A i \in DOMAIN ledger' :
                ledger'[i].id \in {loc'[p].user_entry, loc'[p].ai_entry}
                => ledger'[i].group_id = None]_vars

\* C38 witness: a request with a group name and no group identifier was
\* answered 200 after a group had been created for another request.
C38_Witness ==
    \E p \in Procs :
        /\ req[p].group_name # None
        /\ req[p].group_whatsapp_id = None /\ req[p].group_telegram_id = None
        /\ loc[p].status = 200
        /\ loc[p].ai_entry # None
        /\ groups # {}

====
